---- MODULE Spec2Model ----
\* Model of the document image pipeline of expense-parser:
\* DocumentImagePipeline (process, validate_classifier_and_parser_document_types,
\* add_* mutation API), the shipped processors' error handling, read_image, and
\* the value semantics of the classifier / parser outputs the pipeline compares.
EXTENDS Integers, Sequences, FiniteSets, TLC

\* ---------------------------------------------------------------- bounds
MaxProcessors == 1
MaxClassifiers == 3
MaxParsers == 2
MaxBatch == 2

\* ------------------------------------------------------- component universe
\* Processors: a user-defined identity processor, the shipped format converter,
\* and a user-defined processor whose process() lets an exception escape.
ProcessorIds == {"noop", "converter", "raising"}

\* Classifiers and the supported_document_types list each was constructed with.
ClassifierIds == {"c1", "c2", "c3", "c0"}

supported_document_types(classifier) ==
    CASE classifier = "c1" -> {"receipt"}
      [] classifier = "c2" -> {"invoice"}
      [] classifier = "c3" -> {"receipt", "invoice"}
      [] OTHER -> {}

\* Parsers and the target_document_type each was constructed with ("" is falsy).
ParserIds == {"p_receipt", "p_invoice", "p_blank"}

\* The same parsers and p_receipt2, a second instance built for the type of p_receipt.
ParserInstances == ParserIds \cup {"p_receipt2"}

target_document_type(parser) ==
    CASE parser \in {"p_receipt", "p_receipt2"} -> "receipt"
      [] parser = "p_invoice" -> "invoice"
      [] OTHER -> ""

\* Arguments a caller passes as document_image: None, the empty string, and
\* paths under IMAGE_INPUT_FILE_PATH (one absent, one readable, one readable
\* whose pixel data is truncated so that a later convert() fails).
DocumentImages == {"None", "", "missing.jpg", "receipt.jpg", "truncated.jpg"}

\* ------------------------------------------------------------ value shapes
Range(s) == {s[i] : i \in DOMAIN s}

\* All sequences without repetition that enumerate the finite set S.
Orders(S) ==
    {s \in [1..Cardinality(S) -> S] : \A i, j \in 1..Cardinality(S) : s[i] = s[j] => i = j}

\* Sequences over S of length 1..n (the batches handed to add_*s).
Batches(S, n) == UNION {[1..k -> S] : k \in 1..n}

\* DocumentImageClassifierOutput: status plus details, where details is either a
\* ClassifierSchema (schema = TRUE, value = its document_type) or a str.
ClassifierOutput(status, schema, value) ==
    [status |-> status, schema |-> schema, value |-> value]

ClassifierOutputs ==
    { ClassifierOutput("OK", TRUE, "receipt"),
      ClassifierOutput("NO_TEXT", FALSE, "No text detected in the image."),
      ClassifierOutput("UNKNOWN_ERROR", FALSE, "OK") }

\* DOCUMENT_IMAGE_GPT_CLASSIFIER_CONFIG["default_response"]
default_response ==
    ClassifierOutput("UNKNOWN_ERROR", FALSE, "An unknown error occurred. Please try again later.")

NoVerdict == ClassifierOutput("", FALSE, "")

\* DocumentImageParserOutput: status plus details (record tokens or a message).
ParserOutput(status, details) == [status |-> status, details |-> details]

NoParserOutput == ParserOutput("", <<>>)

\* DocumentImagePipelineOutput.details: Union[DocumentImageParserOutput, str].
\* A str is an f-string: its literal prefix and the tokens of the rendered value.
StrDetails(prefix, tokens) ==
    [str |-> TRUE, prefix |-> prefix, tokens |-> tokens, output |-> NoParserOutput]

OutputDetails(parser_result) ==
    [str |-> FALSE, prefix |-> "", tokens |-> <<>>, output |-> parser_result]

NoDetails == StrDetails("", <<>>)

\* What a call hands back: a returned value or a raised exception.
Returned(status, details) == [kind |-> "return", status |-> status, details |-> details]

Raised(exception) == [kind |-> "raise", status |-> exception, details |-> NoDetails]

NoOutcome == [kind |-> "none", status |-> "", details |-> NoDetails]

\* A PIL image: the file it was opened from and the conversions applied to it.
ImageValue(file, ops) == [file |-> file, ops |-> ops]

NoImage == ImageValue("", <<>>)

\* processors, classifiers, parsers: the three lists of the pipeline under study;
\* last: the call in progress on it. lists and pipelines are the list objects
\* and the pipeline instances referring to them, for the runs that construct
\* more than one instance.
VARIABLES processors, classifiers, parsers, last, lists, pipelines

vars == <<processors, classifiers, parsers, last, lists, pipelines>>

\* ------------------------------------------------------- Python comparisons
\* Values as `==` sees them: a str, or a pydantic model (compared through its
\* dict(), which never equals a str), each with the content that is compared.
PyStr(s) == [py |-> "str", content |-> <<s>>]

PyModel(fields) == [py |-> "BaseModel", content |-> fields]

PyEq(a, b) == a.py = b.py /\ a.content = b.content

\* The details field of a classifier output as a Python value.
PyDetails(output) ==
    IF output.schema THEN PyModel(<<output.value>>) ELSE PyStr(output.value)

\* A whole DocumentImageClassifierOutput as a Python value.
PyOutput(output) == PyModel(<<output.status, output.schema, output.value>>)

\* str() of the values the f-strings interpolate, as tokens.
RenderDetails(output) ==
    IF output.schema THEN <<"document_type=", output.value>> ELSE <<output.value>>

RenderOutput(output) == <<"status=", output.status, "details=">> \o RenderDetails(output)

\* ------------------------------------------------------------ collaborators
\* The precondition written as `document_image is not None`: the empty string passes.
Truthy_none_only(document_image) == document_image # "None"

\* `if not document_image` is False for these arguments.
Truthy(document_image) == document_image \notin {"None", ""}

\* utils.read_image on a path: opens the file (lazily), or raises when absent.
read_image(document_image) ==
    IF document_image = "missing.jpg"
    THEN [raised |-> TRUE, image |-> NoImage, message |-> <<"No such file or directory: ", document_image>>]
    ELSE [raised |-> FALSE, image |-> ImageValue(document_image, <<>>), message |-> <<>>]

\* image.convert(target_format) decodes the pixel data: it raises on a truncated file.
ConvertRaises(image) == image.file = "truncated.jpg"

\* What processor.process hands back: an image, or an exception that escapes it.
Handed(image) == [raised |-> FALSE, image |-> image, message |-> <<>>]

Escaped(image, message) == [raised |-> TRUE, image |-> image, message |-> message]

\* The converter without its try/except: the exception of convert escapes.
DocumentFormatConverter_process_unguarded(image) ==
    IF ConvertRaises(image)
    THEN Escaped(image, <<"image file is truncated">>)
    ELSE Handed(ImageValue(image.file, Append(image.ops, "RGB")))

\* DocumentFormatConverter.process: convert, and on any exception log it and
\* return the image as it was.
DocumentFormatConverter_process(image) ==
    IF ConvertRaises(image)
    THEN Handed(image)
    ELSE Handed(ImageValue(image.file, Append(image.ops, "RGB")))

\* processor.process(document_image) for each processor of the universe.
processor_process(processor, image) ==
    CASE processor = "noop" -> Handed(image)
      [] processor = "converter" -> DocumentFormatConverter_process(image)
      [] OTHER -> Escaped(image, <<"processor failed">>)

\* classifier.classify(document_image): what a classifier may answer. An image
\* that cannot be encoded (image.save raises OSError, which handle_errors turns
\* into the default response) gets the default response; otherwise the answer
\* is whatever the backing model service sent.
classifier_classify(image) ==
    IF image.file = "truncated.jpg" THEN {default_response} ELSE ClassifierOutputs

\* parser.parse(document_image) of the parser stubs. An image that cannot be
\* encoded gets RECEIPT_PARSER_CONFIG["default_response"] (handle_errors); the
\* receipt parser extracts a record from an image as loaded and misses the total
\* on a converted one; the invoice parser fails.
parser_parse(parser, image) ==
    CASE image.file = "truncated.jpg" ->
            ParserOutput("UNKNOWN_ERROR", <<"An unknown error occurred. Please try again later.">>)
      [] parser = "p_receipt" /\ image.ops = <<>> ->
            ParserOutput("OK", <<"store_name=Example", "total=100.0", "currency=USD">>)
      [] OTHER -> ParserOutput("EXTRACTION_FAILED", <<"missing total">>)

\* ------------------------------------------------- DocumentImagePipeline.process
\* The validation with the operands of the set difference swapped.
missing_document_types_swapped(cls, prs) ==
    LET supported == {target_document_type(prs[i]) : i \in DOMAIN prs}
        classifier_document_types == UNION {supported_document_types(cls[i]) : i \in DOMAIN cls}
    IN  supported \ classifier_document_types

\* The validation computed once, on the collections the pipeline was constructed
\* with (the empty default lists), and kept for every later call.
missing_document_types_at_construction(cls, prs) ==
    LET constructed == <<>>
        supported == {target_document_type(constructed[i]) : i \in DOMAIN constructed}
        classifier_document_types ==
            UNION {supported_document_types(constructed[i]) : i \in DOMAIN constructed}
    IN  classifier_document_types \ supported

\* validate_classifier_and_parser_document_types: the classifier-supported types
\* that no parser targets (is_valid is: there are none).
missing_document_types(cls, prs) ==
    LET supported == {target_document_type(prs[i]) : i \in DOMAIN prs}
        classifier_document_types == UNION {supported_document_types(cls[i]) : i \in DOMAIN cls}
    IN  classifier_document_types \ supported

\* The processor loop: processors in list order, each fed the previous output;
\* stops at the first exception that escapes a processor.
RECURSIVE ApplyProcessors(_, _, _)
ApplyProcessors(procs, k, acc) ==
    IF k > Len(procs) THEN acc
    ELSE LET r == processor_process(procs[k], acc.image)
             called == Append(acc.calls, <<"process", k>>)
         IN  IF r.raised
             THEN [raised |-> TRUE, image |-> acc.image, calls |-> called, message |-> r.message]
             ELSE ApplyProcessors(procs, k + 1,
                     [raised |-> FALSE, image |-> r.image, calls |-> called, message |-> <<>>])

\* The processor loop of process on a loaded argument.
Chain(procs, document_image) ==
    ApplyProcessors(procs, 1,
        [raised |-> FALSE, image |-> read_image(document_image).image,
         calls |-> <<<<"validate", 0>>, <<"read_image", 0>>>>, message |-> <<>>])

\* classification_results.count(value)
Count(results, value) == Cardinality({i \in DOMAIN results : results[i] = value})

\* max(iterable, key=results.count): the first element, in iteration order, whose
\* count is maximal.
MaxByCount(iteration, results) ==
    LET best == CHOOSE n \in {Count(results, iteration[i]) : i \in DOMAIN iteration} :
                    \A i \in DOMAIN iteration : Count(results, iteration[i]) <= n
        first == CHOOSE i \in DOMAIN iteration :
                    /\ Count(results, iteration[i]) = best
                    /\ \A j \in DOMAIN iteration : Count(results, iteration[j]) = best => i <= j
    IN  iteration[first]

\* `document_type.details != ClassifierStatusCodes.OK`
DetailsNotOK(document_type) == ~PyEq(PyDetails(document_type), PyStr("OK"))

\* `parser.target_document_type == document_type`
TargetMatches(parser, document_type) ==
    PyEq(PyStr(target_document_type(parser)), PyOutput(document_type))

\* next((parser for parser in self.parsers if ...), None): index of the first
\* matching parser, 0 for None.
FindParser(prs, document_type) ==
    LET hits == {i \in DOMAIN prs : TargetMatches(prs[i], document_type)}
    IN  IF hits = {} THEN 0 ELSE CHOOSE i \in hits : \A j \in hits : i <= j

\* What one call of process leaves behind: its outcome, the collaborator calls it
\* made in order, the image it ended with and the verdict it voted for.
Result(outcome, calls, image, document_type) ==
    [outcome |-> outcome, calls |-> calls, image |-> image, document_type |-> document_type]

\* Routing and parsing with the status of the last return statement also on the
\* return for a missing parser.
RouteAndParse_success_without_parser(prs, image, document_type, calls) ==
    LET found == FindParser(prs, document_type)
    IN  IF found = 0
        THEN Result(Returned("FINISHED_SUCCESS",
                        StrDetails("No parser found for document type: ", RenderOutput(document_type))),
                    calls, image, document_type)
        ELSE LET parser_result == parser_parse(prs[found], image)
                 called == Append(calls, <<"parse", found>>)
             IN  IF parser_result.status # "OK"
                 THEN Result(Returned("ERROR",
                                 StrDetails("Error in parsing document: ", parser_result.details)),
                             called, image, document_type)
                 ELSE Result(Returned("FINISHED_SUCCESS", OutputDetails(parser_result)),
                             called, image, document_type)

\* Lines 81-104: routing and parsing.
RouteAndParse(prs, image, document_type, calls) ==
    LET found == FindParser(prs, document_type)
    IN  IF found = 0
        THEN Result(Returned("ERROR",
                        StrDetails("No parser found for document type: ", RenderOutput(document_type))),
                    calls, image, document_type)
        ELSE LET parser_result == parser_parse(prs[found], image)
                 called == Append(calls, <<"parse", found>>)
             IN  IF parser_result.status # "OK"
                 THEN Result(Returned("ERROR",
                                 StrDetails("Error in parsing document: ", parser_result.details)),
                             called, image, document_type)
                 ELSE Result(Returned("FINISHED_SUCCESS", OutputDetails(parser_result)),
                             called, image, document_type)

\* The classification loop stopping at the first answer: only the first
\* registered classifier is asked, and its answer is the verdict.
ClassifyAndVote_first_answer(cls, prs, image, calls, env) ==
    LET called == IF Len(cls) > 0 THEN Append(calls, <<"classify", 1>>) ELSE calls
    IN  IF ~env.hashable /\ Len(cls) > 0
        THEN Result(Raised("TypeError"), called, image, NoVerdict)
        ELSE IF Len(cls) = 0
        THEN Result(Raised("ValueError"), called, image, NoVerdict)
        ELSE LET document_type == env.classification_results[1]
             IN  IF DetailsNotOK(document_type)
                 THEN Result(Returned("ERROR",
                                 StrDetails("Error in classifying document type: ",
                                            RenderDetails(document_type))),
                             called, image, document_type)
                 ELSE RouteAndParse(prs, image, document_type, called)

\* Lines 71-79: every classifier classifies, then the vote. env carries what the
\* run does not control: what each classifier answered, whether the answers'
\* class is hashable, and the iteration order of the set built from them.
ClassifyAndVote(cls, prs, image, calls, env) ==
    LET called == calls \o [i \in DOMAIN cls |-> <<"classify", i>>]
    IN  IF ~env.hashable /\ Len(cls) > 0
        THEN Result(Raised("TypeError"), called, image, NoVerdict)
        ELSE IF Len(cls) = 0
        THEN Result(Raised("ValueError"), called, image, NoVerdict)
        ELSE LET document_type == MaxByCount(env.iteration_order, env.classification_results)
             IN  IF DetailsNotOK(document_type)
                 THEN Result(Returned("ERROR",
                                 StrDetails("Error in classifying document type: ",
                                            RenderDetails(document_type))),
                             called, image, document_type)
                 ELSE RouteAndParse(prs, image, document_type, called)

\* Lines 44-69, then the rest: the whole of process on one argument.
ProcessResult(procs, cls, prs, document_image, env) ==
    IF ~Truthy(document_image)
    THEN Result(Raised("ValueError"), <<>>, NoImage, NoVerdict)
    ELSE IF missing_document_types(cls, prs) # {}
    THEN Result(Returned("ERROR",
                    StrDetails("Missing parsers for document types: ", env.missing_order)),
                <<<<"validate", 0>>>>, NoImage, NoVerdict)
    ELSE LET read == read_image(document_image)
         IN  IF read.raised
             THEN Result(Returned("ERROR", StrDetails("Error in reading image: ", read.message)),
                         <<<<"validate", 0>>, <<"read_image", 0>>>>, NoImage, NoVerdict)
             ELSE LET chain == Chain(procs, document_image)
                  IN  IF chain.raised
                      THEN Result(Returned("ERROR",
                                      StrDetails("Error in processing image: ", chain.message)),
                                  chain.calls, chain.image, NoVerdict)
                      ELSE ClassifyAndVote(cls, prs, chain.image, chain.calls, env)

\* ------------------------------------------------------------------ state
\* What the run of process does not control, drawn only as far as the run gets:
\* the order list(set(...)) gives the missing types, and, when every processor
\* returned, each classifier's answer, whether the answers are hashable, and
\* the iteration order of set(classification_results). The output classes of
\* the repository are pydantic models without frozen config: they define __eq__
\* and are not hashable (hashable = FALSE). A classifier whose output class is
\* frozen answers hashable values (hashable = TRUE); their set iterates in hash
\* order, which is any order of the distinct values.
NoEnv ==
    [missing_order |-> <<>>, classification_results |-> <<>>,
     hashable |-> FALSE, iteration_order |-> <<>>]

ReachesClassification(procs, cls, prs, document_image) ==
    /\ Truthy(document_image)
    /\ missing_document_types(cls, prs) = {}
    /\ ~read_image(document_image).raised
    /\ ~Chain(procs, document_image).raised

Environments(procs, cls, prs, document_image) ==
    IF ~Truthy(document_image) THEN {NoEnv}
    ELSE IF missing_document_types(cls, prs) # {}
    THEN {[NoEnv EXCEPT !.missing_order = o] : o \in Orders(missing_document_types(cls, prs))}
    ELSE IF ~ReachesClassification(procs, cls, prs, document_image) \/ Len(cls) = 0
    THEN {NoEnv}
    ELSE UNION {
            {[NoEnv EXCEPT !.classification_results = r]}
            \cup {[NoEnv EXCEPT !.classification_results = r, !.hashable = TRUE,
                                !.iteration_order = o] : o \in Orders(Range(r))}
            : r \in [1..Len(cls) -> classifier_classify(Chain(procs, document_image).image)]}

\* The last call made on the pipeline and what it handed back.
Call(op, document_image, env, result) ==
    [op |-> op, document_image |-> document_image, env |-> env, result |-> result]

NoResult == Result(NoOutcome, <<>>, NoImage, NoVerdict)

NoCall == Call("", "None", NoEnv, NoResult)

\* A mutation call that returned (None) or raised ValueError.
Mutated(op) == Call(op, "None", NoEnv, Result(Returned("None", NoDetails), <<>>, NoImage, NoVerdict))

Rejected(op) == Call(op, "None", NoEnv, Result(Raised("ValueError"), <<>>, NoImage, NoVerdict))

\* ------------------------------------------------------------ list objects
\* The three attributes of a pipeline hold references to list objects.
Kinds == {"processors", "classifiers", "parsers"}

\* The list objects a constructor argument can be: "default" is the [] of the
\* base constructor's signature (one object per parameter, created when the def
\* is evaluated), "config" the module-level lists of
\* DOCUMENT_IMAGE_GPT_PIPELINE_CONFIG that DocumentImageGptPipeline defaults to,
\* "caller" lists built by the calling code and handed to a constructor.
ListObjects == {"default", "config", "caller"}

\* _PROCESSORS, _CLASSIFIERS and _PARSERS of the GPT configuration.
ConfigList(kind) ==
    CASE kind = "processors" -> <<"converter", "resizer">>
      [] kind = "classifiers" -> <<"c1">>
      [] kind = "parsers" -> <<"p_receipt">>

\* Contents of every list object before any pipeline is constructed.
InitialLists ==
    [kind \in Kinds |->
        [object \in ListObjects |-> IF object = "config" THEN ConfigList(kind) ELSE <<>>]]

\* Pipeline instances constructed side by side; NoPipelines when only the
\* pipeline of processors/classifiers/parsers is under study.
Instances == {"a", "b"}

NoPipelines == [self \in {} |-> ""]

\* DocumentImagePipeline.__init__ with its default arguments.
Init ==
    /\ processors = <<>>
    /\ classifiers = <<>>
    /\ parsers = <<>>
    /\ last = NoCall
    /\ lists = InitialLists
    /\ pipelines = NoPipelines

\* ------------------------------------------------------------ mutation API
add_processor(processor) ==
    /\ last = NoCall
    /\ Len(processors) < MaxProcessors
    /\ IF processor \in Range(processors)
       THEN /\ last' = Rejected("add_processor")
            /\ UNCHANGED processors
       ELSE /\ processors' = Append(processors, processor)
            /\ last' = Mutated("add_processor")
    /\ UNCHANGED <<classifiers, parsers, lists, pipelines>>

add_processors(batch) ==
    /\ last = NoCall
    /\ Len(processors) + Len(batch) <= MaxProcessors
    /\ IF \E i \in DOMAIN batch : batch[i] \in Range(processors)
       THEN /\ last' = Rejected("add_processors")
            /\ UNCHANGED processors
       ELSE /\ processors' = processors \o batch
            /\ last' = Mutated("add_processors")
    /\ UNCHANGED <<classifiers, parsers, lists, pipelines>>

add_classifier(classifier) ==
    /\ last = NoCall
    /\ Len(classifiers) < MaxClassifiers
    /\ IF classifier \in Range(classifiers) \/ supported_document_types(classifier) = {}
       THEN /\ last' = Rejected("add_classifier")
            /\ UNCHANGED classifiers
       ELSE /\ classifiers' = Append(classifiers, classifier)
            /\ last' = Mutated("add_classifier")
    /\ UNCHANGED <<processors, parsers, lists, pipelines>>

add_classifiers(batch) ==
    /\ last = NoCall
    /\ Len(classifiers) + Len(batch) <= MaxClassifiers
    /\ IF \E i \in DOMAIN batch :
            batch[i] \in Range(classifiers) \/ supported_document_types(batch[i]) = {}
       THEN /\ last' = Rejected("add_classifiers")
            /\ UNCHANGED classifiers
       ELSE /\ classifiers' = classifiers \o batch
            /\ last' = Mutated("add_classifiers")
    /\ UNCHANGED <<processors, parsers, lists, pipelines>>

add_parser(parser) ==
    /\ last = NoCall
    /\ Len(parsers) < MaxParsers
    /\ IF parser \in Range(parsers) \/ target_document_type(parser) = ""
       THEN /\ last' = Rejected("add_parser")
            /\ UNCHANGED parsers
       ELSE /\ parsers' = Append(parsers, parser)
            /\ last' = Mutated("add_parser")
    /\ UNCHANGED <<processors, classifiers, lists, pipelines>>

\* add_parsers checking and appending one element at a time: the elements before
\* the first rejected one are in the pipeline when the call raises.
add_parsers_one_by_one(batch) ==
    /\ last = NoCall
    /\ Len(parsers) + Len(batch) <= MaxParsers
    /\ LET bad == {i \in DOMAIN batch :
                       batch[i] \in Range(parsers) \/ target_document_type(batch[i]) = ""}
       IN  IF bad = {}
           THEN /\ parsers' = parsers \o batch
                /\ last' = Mutated("add_parsers")
           ELSE /\ parsers' = parsers \o SubSeq(batch, 1, (CHOOSE i \in bad : \A j \in bad : i <= j) - 1)
                /\ last' = Rejected("add_parsers")
    /\ UNCHANGED <<processors, classifiers, lists, pipelines>>

add_parsers(batch) ==
    /\ last = NoCall
    /\ Len(parsers) + Len(batch) <= MaxParsers
    /\ IF \E i \in DOMAIN batch :
            batch[i] \in Range(parsers) \/ target_document_type(batch[i]) = ""
       THEN /\ last' = Rejected("add_parsers")
            /\ UNCHANGED parsers
       ELSE /\ parsers' = parsers \o batch
            /\ last' = Mutated("add_parsers")
    /\ UNCHANGED <<processors, classifiers, lists, pipelines>>

\* ------------------------------------------------------------------ process
process(document_image) ==
    /\ last = NoCall
    /\ \E env \in Environments(processors, classifiers, parsers, document_image) :
         last' = Call("process", document_image, env,
                      ProcessResult(processors, classifiers, parsers, document_image, env))
    /\ UNCHANGED <<processors, classifiers, parsers, lists, pipelines>>

\* The caller takes what the call handed back; the pipeline is idle again.
Return ==
    /\ last # NoCall
    /\ last' = NoCall
    /\ UNCHANGED <<processors, classifiers, parsers, lists, pipelines>>

Next ==
    \/ \E processor \in ProcessorIds : add_processor(processor)
    \/ \E batch \in Batches(ProcessorIds, MaxBatch) : add_processors(batch)
    \/ \E classifier \in ClassifierIds : add_classifier(classifier)
    \/ \E batch \in Batches(ClassifierIds, MaxBatch) : add_classifiers(batch)
    \/ \E parser \in ParserIds : add_parser(parser)
    \/ \E batch \in Batches(ParserIds, MaxBatch) : add_parsers(batch)
    \/ \E document_image \in DocumentImages : process(document_image)
    \/ Return

Spec == Init /\ [][Next]_vars

\* The classifiers as the mutation API tells them apart: by identity and by
\* whether supported_document_types is empty.
ClassifierInstances == {"c1", "c3", "c0"}

\* The mutation API alone, on a pipeline constructed with the default arguments,
\* with two parser instances of one type among the arguments.
NextMutation ==
    \/ \E processor \in ProcessorIds : add_processor(processor)
    \/ \E batch \in Batches(ProcessorIds, MaxBatch) : add_processors(batch)
    \/ \E classifier \in ClassifierInstances : add_classifier(classifier)
    \/ \E batch \in Batches(ClassifierInstances, MaxBatch) : add_classifiers(batch)
    \/ \E parser \in ParserInstances : add_parser(parser)
    \/ \E batch \in Batches(ParserInstances, MaxBatch) : add_parsers(batch)
    \/ Return

SpecMutation == Init /\ [][NextMutation]_vars

\* ------------------------------------- DocumentImageGPTClassifier.classify
\* What classify is called with: None, a path, or an image object (the pipeline
\* hands it the image object the last processor returned).
ClassifyArgument(type, file) == [type |-> type, file |-> file]

ClassifyArguments ==
    { ClassifyArgument("NoneType", ""),
      ClassifyArgument("str", ""),
      ClassifyArgument("str", "missing.jpg"),
      ClassifyArgument("str", "receipt.jpg"),
      ClassifyArgument("str", "truncated.jpg"),
      ClassifyArgument("Image", "receipt.jpg"),
      ClassifyArgument("Image", "truncated.jpg") }

\* encode_image_to_base64: read_image raises ValueError for an argument that is
\* neither an image nor a str and OSError for a path that does not open;
\* image.save raises OSError on truncated pixel data. "" is: encoded.
encode_image_to_base64(image) ==
    CASE image.type \notin {"Image", "str"} -> "ValueError"
      [] image.type = "str" /\ image.file \in {"", "missing.jpg"} -> "OSError"
      [] image.file = "truncated.jpg" -> "OSError"
      [] OTHER -> ""

\* The payloads the model service may put under response["data"] that validate
\* as DocumentImageGPTClassifierOutput: any status with a ClassifierSchema or a
\* str as details.
GptPayloads ==
    { ClassifierOutput("OK", TRUE, "receipt"),
      ClassifierOutput("OK", TRUE, "invoice"),
      ClassifierOutput("OK", TRUE, "passport"),
      ClassifierOutput("OK", FALSE, "receipt"),
      ClassifierOutput("NO_TEXT", FALSE, "No text detected in the image."),
      ClassifierOutput("UNSUPPORTED_TYPE", FALSE, "Unsupported document type."),
      ClassifierOutput("FAKE_DOCUMENT", TRUE, "receipt") }

\* What the collaborators of classify do in one call. fails names the first step
\* that raises ("" for none): _count_tokens (tiktoken), the completion call with
\* an OpenAIError or with another exception, response['usage'][...] (TypeError
\* or KeyError), response["data"] (KeyError), or the validation of the payload
\* (pydantic ValidationError). payload is what response["data"] holds.
ServiceBehaviour(fails, payload) == [fails |-> fails, payload |-> payload]

ServiceBehaviours ==
    {ServiceBehaviour(f, NoVerdict) :
        f \in {"_count_tokens", "OpenAIError", "parse", "usage", "data", "validation"}}
    \cup {ServiceBehaviour("", payload) : payload \in GptPayloads}

\* What a call of classify comes to: an output returned or an exception raised,
\* and which of the token counters of the classifier it updated.
ClassifyOutcome(kind, output, exception, counted) ==
    [kind |-> kind, output |-> output, exception |-> exception, counted |-> counted]

ClassifyReturns(output, counted) == ClassifyOutcome("return", output, "", counted)

ClassifyRaises(exception, counted) == ClassifyOutcome("raise", NoVerdict, exception, counted)

\* Lines 54-94: the body of classify, before the decorator.
classify_body(image, service) ==
    IF encode_image_to_base64(image) = "ValueError"
    THEN ClassifyReturns(ClassifierOutput("INVALID_IMAGE", FALSE, "Error in encoding image: ..."), <<>>)
    ELSE IF encode_image_to_base64(image) # ""
    THEN ClassifyRaises(encode_image_to_base64(image), <<>>)
    ELSE IF service.fails = "_count_tokens"
    THEN ClassifyRaises("TypeError", <<>>)
    ELSE IF service.fails = "OpenAIError"
    THEN ClassifyReturns(ClassifierOutput("UNKNOWN_ERROR", FALSE, "Error in OpenAI API: ..."),
                         <<"input">>)
    ELSE IF service.fails = "parse"
    THEN ClassifyRaises("Exception", <<"input">>)
    ELSE IF service.fails = "usage"
    THEN ClassifyRaises("TypeError", <<"input">>)
    ELSE IF service.fails = "data"
    THEN ClassifyReturns(ClassifierOutput("EXTRACTION_FAILED", FALSE, "Missing required field: 'data'"),
                         <<"input", "output">>)
    ELSE IF service.fails = "validation"
    THEN ClassifyRaises("ValidationError", <<"input", "output">>)
    ELSE ClassifyReturns(service.payload, <<"input", "output">>)

\* The decorator without its except clause: the exception goes to the caller.
handle_errors_reraise(default_value, called) == called

\* handle_errors(default_value): any exception of the wrapped call is logged and
\* default_value is returned.
handle_errors(default_value, called) ==
    IF called.kind = "raise"
    THEN ClassifyReturns(default_value, called.counted)
    ELSE called

\* DocumentImageGPTClassifier.classify as decorated.
DocumentImageGPTClassifier_classify(image, service) ==
    handle_errors(default_response, classify_body(image, service))

\* A call of classify on the classifier under test and what it came to.
ClassifyCall(image, service, called) ==
    [op |-> "classify", image |-> image, service |-> service, called |-> called]

\* One classifier constructed with its supported_document_types, no call yet.
InitClassifier ==
    /\ processors = <<>>
    /\ parsers = <<>>
    /\ classifiers \in {<<classifier>> : classifier \in ClassifierIds}
    /\ last = NoCall
    /\ lists = InitialLists
    /\ pipelines = NoPipelines

classify(image, service) ==
    /\ last = NoCall
    /\ last' = ClassifyCall(image, service, DocumentImageGPTClassifier_classify(image, service))
    /\ UNCHANGED <<processors, classifiers, parsers, lists, pipelines>>

NextClassifier ==
    \/ \E image \in ClassifyArguments, service \in ServiceBehaviours : classify(image, service)
    \/ Return

SpecClassifier == InitClassifier /\ [][NextClassifier]_vars

\* ------------------------------------------------- several pipeline instances
\* Components handed to the add_* calls of the instances: two processors, a
\* classifier with and one without supported types, two parsers with a target
\* type and one without.
OwnedProcessorIds == {"noop", "converter"}

OwnedClassifierIds == {"c1", "c0"}

OwnedParserIds == ParserIds

\* self.processors / self.classifiers / self.parsers: the contents of the list
\* object the attribute refers to.
Owned(self, kind) == lists[kind][pipelines[self]]

Constructed == {self \in Instances : pipelines[self] # "None"}

\* list.append / list.extend on the object the attribute refers to.
Extend(self, kind, batch) ==
    lists' = [lists EXCEPT ![kind][pipelines[self]] = @ \o batch]

\* Growth of a list beyond its initial contents is capped by the bound of its kind.
Room(self, kind, n, max) ==
    Len(Owned(self, kind)) + n <= Len(InitialLists[kind][pipelines[self]]) + max

\* No instance constructed yet.
InitOwnership ==
    /\ processors = <<>>
    /\ classifiers = <<>>
    /\ parsers = <<>>
    /\ last = NoCall
    /\ lists = InitialLists
    /\ pipelines = [self \in Instances |-> "None"]

\* The constructor, called with no argument ("default" for a subclass that keeps
\* the base signature, "config" for DocumentImageGptPipeline) or with the lists
\* of a caller: the three attributes are bound to the argument objects.
Pipeline_init(self, object) ==
    /\ pipelines[self] = "None"
    /\ pipelines' = [pipelines EXCEPT ![self] = object]
    /\ UNCHANGED <<processors, classifiers, parsers, last, lists>>

\* The add_* methods of one instance. A call that raises ValueError leaves every
\* list as it was.
Pipeline_add_processor(self, processor) ==
    /\ self \in Constructed
    /\ Room(self, "processors", 1, MaxProcessors)
    /\ IF processor \in Range(Owned(self, "processors"))
       THEN UNCHANGED lists
       ELSE Extend(self, "processors", <<processor>>)
    /\ UNCHANGED <<processors, classifiers, parsers, last, pipelines>>

Pipeline_add_processors(self, batch) ==
    /\ self \in Constructed
    /\ Room(self, "processors", Len(batch), MaxProcessors)
    /\ IF \E i \in DOMAIN batch : batch[i] \in Range(Owned(self, "processors"))
       THEN UNCHANGED lists
       ELSE Extend(self, "processors", batch)
    /\ UNCHANGED <<processors, classifiers, parsers, last, pipelines>>

Pipeline_add_classifier(self, classifier) ==
    /\ self \in Constructed
    /\ Room(self, "classifiers", 1, MaxClassifiers)
    /\ IF \/ classifier \in Range(Owned(self, "classifiers"))
          \/ supported_document_types(classifier) = {}
       THEN UNCHANGED lists
       ELSE Extend(self, "classifiers", <<classifier>>)
    /\ UNCHANGED <<processors, classifiers, parsers, last, pipelines>>

Pipeline_add_classifiers(self, batch) ==
    /\ self \in Constructed
    /\ Room(self, "classifiers", Len(batch), MaxClassifiers)
    /\ IF \E i \in DOMAIN batch :
            \/ batch[i] \in Range(Owned(self, "classifiers"))
            \/ supported_document_types(batch[i]) = {}
       THEN UNCHANGED lists
       ELSE Extend(self, "classifiers", batch)
    /\ UNCHANGED <<processors, classifiers, parsers, last, pipelines>>

Pipeline_add_parser(self, parser) ==
    /\ self \in Constructed
    /\ Room(self, "parsers", 1, MaxParsers)
    /\ IF \/ parser \in Range(Owned(self, "parsers"))
          \/ target_document_type(parser) = ""
       THEN UNCHANGED lists
       ELSE Extend(self, "parsers", <<parser>>)
    /\ UNCHANGED <<processors, classifiers, parsers, last, pipelines>>

Pipeline_add_parsers(self, batch) ==
    /\ self \in Constructed
    /\ Room(self, "parsers", Len(batch), MaxParsers)
    /\ IF \E i \in DOMAIN batch :
            \/ batch[i] \in Range(Owned(self, "parsers"))
            \/ target_document_type(batch[i]) = ""
       THEN UNCHANGED lists
       ELSE Extend(self, "parsers", batch)
    /\ UNCHANGED <<processors, classifiers, parsers, last, pipelines>>

\* Any add_* call on self.
Pipeline_add(self) ==
    \/ \E processor \in OwnedProcessorIds : Pipeline_add_processor(self, processor)
    \/ \E batch \in Batches(OwnedProcessorIds, MaxBatch) : Pipeline_add_processors(self, batch)
    \/ \E classifier \in OwnedClassifierIds : Pipeline_add_classifier(self, classifier)
    \/ \E batch \in Batches(OwnedClassifierIds, MaxBatch) : Pipeline_add_classifiers(self, batch)
    \/ \E parser \in OwnedParserIds : Pipeline_add_parser(self, parser)
    \/ \E batch \in Batches(OwnedParserIds, MaxBatch) : Pipeline_add_parsers(self, batch)

NextOwnership ==
    \/ \E self \in Instances, object \in ListObjects : Pipeline_init(self, object)
    \/ \E self \in Instances, processor \in OwnedProcessorIds :
            Pipeline_add_processor(self, processor)
    \/ \E self \in Instances, batch \in Batches(OwnedProcessorIds, MaxBatch) :
            Pipeline_add_processors(self, batch)
    \/ \E self \in Instances, classifier \in OwnedClassifierIds :
            Pipeline_add_classifier(self, classifier)
    \/ \E self \in Instances, batch \in Batches(OwnedClassifierIds, MaxBatch) :
            Pipeline_add_classifiers(self, batch)
    \/ \E self \in Instances, parser \in OwnedParserIds :
            Pipeline_add_parser(self, parser)
    \/ \E self \in Instances, batch \in Batches(OwnedParserIds, MaxBatch) :
            Pipeline_add_parsers(self, batch)

SpecOwnership == InitOwnership /\ [][NextOwnership]_vars

\* ================================================================ claims
\* Shorthands for what the last call of process was given and handed back.
Processed == last.op = "process"

outcome == last.result.outcome

calls == last.result.calls

results == last.env.classification_results

\* The indices of the components the call invoked, by kind of call.
Invoked(kind) == {i \in 0..Len(calls) : \E k \in DOMAIN calls : calls[k] = <<kind, i>>}

TimesInvoked(kind, i) == Cardinality({k \in DOMAIN calls : calls[k] = <<kind, i>>})

\* The configuration invariant, stated on the registered components themselves.
UncoveredTypes ==
    {t \in UNION {supported_document_types(classifiers[i]) : i \in DOMAIN classifiers} :
        \A j \in DOMAIN parsers : target_document_type(parsers[j]) # t}

\* The argument is present and names an image that loads.
Loadable(document_image) == document_image \in {"receipt.jpg", "truncated.jpg"}

\* The call got as far as asking the classifiers (valid configuration, loaded
\* image, no processor raised) and there is at least one.
Classified == Processed /\ results # <<>>

\* Every registered classifier answered status OK with the tag, which each of
\* them declares as supported.
Unanimous(tag) ==
    \A i \in DOMAIN results :
        /\ results[i] = ClassifierOutput("OK", TRUE, tag)
        /\ tag \in supported_document_types(classifiers[i])

\* The parsers registered for the tag.
ParsersFor(tag) == {j \in DOMAIN parsers : target_document_type(parsers[j]) = tag}

\* C1: when the classifier-supported types are all targeted by parsers and every
\* classifier answers OK with the same tag T on a loadable image, process calls
\* parse on the one parser targeting T, once, and on no other parser.
C1_RoutingCorrectness ==
    \A tag \in {"receipt", "invoice"} :
        (Classified /\ UncoveredTypes = {} /\ Unanimous(tag) /\ ParsersFor(tag) # {})
            => \E j \in ParsersFor(tag) :
                   /\ Invoked("parse") = {j}
                   /\ TimesInvoked("parse", j) = 1

\* The values that occur strictly more often among the answers than every other
\* value (at most one), and the values whose count is maximal.
StrictPlurality ==
    {v \in Range(results) : \A w \in Range(results) \ {v} : Count(results, v) > Count(results, w)}

Maximal ==
    {v \in Range(results) : \A w \in Range(results) : Count(results, v) >= Count(results, w)}

\* The position of the first classifier that answered the value.
FirstAt(v) == CHOOSE i \in DOMAIN results : results[i] = v /\ \A j \in 1..(i - 1) : results[j] # v

\* C2: when one value occurs strictly more often among the classifier outputs
\* than every other value, the verdict process votes for is that value.
C2_PluralityVote ==
    Classified => \A v \in StrictPlurality : last.result.document_type = v

\* C3: when several values share the maximal count, the verdict process votes for
\* is the one of them that the earliest-registered classifier produced.
C3_TieBreakFirstRegistered ==
    (Classified /\ Cardinality(Maximal) > 1)
        => \E v \in Maximal :
               /\ \A w \in Maximal : FirstAt(v) <= FirstAt(w)
               /\ last.result.document_type = v

\* C3 in the runs where the vote is computed at all (hashable outputs).
C3_TieBreakWhenVoted ==
    (Classified /\ Cardinality(Maximal) > 1 /\ last.result.document_type # NoVerdict)
        => \E v \in Maximal :
               /\ \A w \in Maximal : FirstAt(v) <= FirstAt(w)
               /\ last.result.document_type = v

\* C2 in the runs where the vote is computed at all (hashable outputs): max over
\* the set by count does pick the strict plurality value.
C2_PluralityWhenVoted ==
    (Classified /\ last.result.document_type # NoVerdict)
        => \A v \in StrictPlurality : last.result.document_type = v

\* C4: when some registered classifier supports a type that no registered parser
\* targets, process on a present image returns ERROR, its details name exactly
\* the uncovered types, and nothing was loaded, processed, classified or parsed.
C4_ValidationGate ==
    (Processed /\ Truthy(last.document_image) /\ UncoveredTypes # {})
        => /\ outcome.kind = "return"
           /\ outcome.status = "ERROR"
           /\ outcome.details.str
           /\ outcome.details.prefix = "Missing parsers for document types: "
           /\ Range(outcome.details.tokens) = UncoveredTypes
           /\ calls = <<<<"validate", 0>>>>

\* A pipeline with a classifier that supports two types and a parser for one of
\* them only stopped a call on a loadable image at the validation gate.
C4_Witness ==
    /\ Processed
    /\ Loadable(last.document_image)
    /\ UncoveredTypes = {"invoice"}
    /\ parsers # <<>>
    /\ processors # <<>>
    /\ outcome.status = "ERROR"

\* C5: when the parser routing must select (the one targeting the tag every
\* classifier agreed on) returns status OK with payload P on the processed image,
\* process returns FINISHED_SUCCESS whose details is that parser output.
C5_ExtractionPassThrough ==
    \A tag \in {"receipt", "invoice"} :
        \A j \in ParsersFor(tag) :
            (/\ Classified
             /\ UncoveredTypes = {}
             /\ Unanimous(tag)
             /\ parser_parse(parsers[j], last.result.image).status = "OK")
                => outcome = Returned("FINISHED_SUCCESS",
                                  OutputDetails(parser_parse(parsers[j], last.result.image)))

\* C7: on a present image argument, process ends by returning a
\* DocumentImagePipelineOutput and never by raising.
C7_NoExceptionEscapes ==
    (Processed /\ Truthy(last.document_image)) => outcome.kind = "return"

\* The outcome is the classification-stage error carrying the verdict's message.
ClassificationError(v) ==
    outcome = Returned("ERROR",
                  StrDetails("Error in classifying document type: ", RenderDetails(v)))

\* C8: process returns ERROR at the classification stage exactly when the winning
\* verdict (here: the strict plurality value) has a status other than OK; the
\* details then carry that verdict's message and no parser was invoked.
C8_ClassificationFailure ==
    Classified =>
        \A v \in StrictPlurality :
            /\ (v.status # "OK") => (ClassificationError(v) /\ Invoked("parse") = {})
            /\ (v.status = "OK") => (outcome.details.prefix # "Error in classifying document type: "
                                     /\ outcome.kind = "return")

\* C9: when the parser routing must select returns a status other than OK with
\* message M, process returns ERROR whose details contain M.
C9_ExtractionFailure ==
    \A tag \in {"receipt", "invoice"} :
        \A j \in ParsersFor(tag) :
            (/\ Classified
             /\ UncoveredTypes = {}
             /\ Unanimous(tag)
             /\ parser_parse(parsers[j], last.result.image).status # "OK")
                => /\ outcome.kind = "return"
                   /\ outcome.status = "ERROR"
                   /\ outcome.details.tokens = parser_parse(parsers[j], last.result.image).details

\* C10: when the image argument is None or the empty string, process raises
\* ValueError before validation runs and without invoking any collaborator,
\* whether or not the configuration is valid.
C10_PreconditionCheck ==
    (Processed /\ last.document_image \in {"None", ""})
        => /\ outcome = Raised("ValueError")
           /\ calls = <<>>

\* process was called with the empty string on a pipeline whose configuration is
\* invalid, and raised.
C10_Witness ==
    /\ Processed
    /\ last.document_image = ""
    /\ UncoveredTypes # {}
    /\ outcome.kind = "raise"

\* process was called with None on a pipeline whose configuration is valid and
\* has all three kinds of component, and raised.
C10_WitnessValid ==
    /\ Processed
    /\ last.document_image = "None"
    /\ UncoveredTypes = {}
    /\ processors # <<>> /\ classifiers # <<>> /\ parsers # <<>>
    /\ outcome.kind = "raise"

\* The pipeline's processors with the one in slot k replaced.
ReplaceAt(procs, k, processor) == [procs EXCEPT ![k] = processor]

\* What the same call would have handed back with the processor in slot k replaced.
ResultWith(k, processor) ==
    ProcessResult(ReplaceAt(processors, k, processor), classifiers, parsers,
                  last.document_image, last.env)

\* The outcome is the processing-stage error.
ProcessingError ==
    outcome.kind = "return" /\ outcome.status = "ERROR"
        /\ outcome.details.prefix = "Error in processing image: "

\* C6 as claimed: replacing an identity no-op processor by one that throws or
\* errors internally (the converter on an image it cannot convert, or a processor
\* whose exception escapes) leaves the outcome unchanged, and the processing
\* chain never makes process return ERROR.
C6_FailOpenAnyProcessor ==
    (Processed /\ Truthy(last.document_image))
        => /\ \A k \in DOMAIN processors :
                processors[k] = "noop" =>
                    /\ ResultWith(k, "raising").outcome = outcome
                    /\ (last.document_image = "truncated.jpg"
                            => ResultWith(k, "converter").outcome = outcome)
           /\ ~ProcessingError

\* C6 as amended: a processor that handles its internal error as the shipped
\* converter does (log, return its input) is interchangeable with an identity
\* no-op: same outcome, same image handed on. The processing chain makes process
\* return ERROR exactly when a processor lets an exception escape on a loaded
\* image of a valid pipeline, and then no classifier is invoked.
C6_FailOpenShippedProcessor ==
    (Processed /\ Truthy(last.document_image))
        => /\ \A k \in DOMAIN processors :
                (last.document_image = "truncated.jpg" /\ processors[k] \in {"noop", "converter"})
                    => \A other \in {"noop", "converter"} :
                           /\ ResultWith(k, other).outcome = outcome
                           /\ ResultWith(k, other).image = last.result.image
           /\ ProcessingError <=>
                (/\ UncoveredTypes = {}
                 /\ Loadable(last.document_image)
                 /\ \E k \in DOMAIN processors : processors[k] = "raising")
           /\ ProcessingError => Invoked("classify") = {}

\* The converter ran on an image it could not convert, handed it on unchanged,
\* and the call went on to the classifiers.
C6_Witness ==
    /\ Classified
    /\ last.document_image = "truncated.jpg"
    /\ processors = <<"converter">>
    /\ Invoked("process") = {1}
    /\ last.result.image = ImageValue("truncated.jpg", <<>>)

\* The outcome is the validation error of lines 48-52.
ValidationError ==
    /\ outcome.kind = "return"
    /\ outcome.status = "ERROR"
    /\ outcome.details.str
    /\ outcome.details.prefix = "Missing parsers for document types: "

\* C11: every process call on a present image is validated against the
\* collections as the mutation calls before it left them: it returns the
\* validation error naming the uncovered types when there are some, and
\* otherwise passes validation and goes on to load the image.
C11_ValidationPerCall ==
    (Processed /\ Truthy(last.document_image))
        => /\ (UncoveredTypes # {})
                => (ValidationError /\ Range(outcome.details.tokens) = UncoveredTypes)
           /\ (UncoveredTypes = {})
                => (/\ ~ValidationError
                    /\ Len(calls) >= 2
                    /\ calls[1] = <<"validate", 0>>
                    /\ calls[2] = <<"read_image", 0>>)

\* A pipeline constructed empty, to which a classifier of two types and a parser
\* for each of them were added since, passed validation.
C11_Witness ==
    /\ Processed
    /\ Truthy(last.document_image)
    /\ "c3" \in Range(classifiers)
    /\ Range(parsers) = {"p_receipt", "p_invoice"}
    /\ ~ValidationError
    /\ Len(calls) >= 2

\* C12: no two different parsers registered with the pipeline have the same
\* target_document_type (add_parser and add_parsers reject the second one).
C12_TargetTagUniqueness ==
    \A i, j \in DOMAIN parsers :
        parsers[i] # parsers[j]
            => target_document_type(parsers[i]) # target_document_type(parsers[j])

\* The elements of a batch that the checks against the collection as it is when
\* the call is made reject.
RejectedProcessors(batch) == {i \in DOMAIN batch : batch[i] \in Range(processors)}

RejectedClassifiers(batch) ==
    {i \in DOMAIN batch :
        batch[i] \in Range(classifiers) \/ supported_document_types(batch[i]) = {}}

RejectedParsers(batch) ==
    {i \in DOMAIN batch :
        batch[i] \in Range(parsers) \/ target_document_type(batch[i]) = ""}

\* What a batch call did: it raised ValueError, or it returned.
Raises(op) == last'.op = op /\ last'.result.outcome = Raised("ValueError")

Returns(op) == last'.op = op /\ last'.result.outcome.kind = "return"

C14_NoDuplicateComponents ==
    /\ \A i, j \in DOMAIN processors : processors[i] = processors[j] => i = j
    /\ \A i, j \in DOMAIN classifiers : classifiers[i] = classifiers[j] => i = j
    /\ \A i, j \in DOMAIN parsers : parsers[i] = parsers[j] => i = j

\* C14 for the calls that add one component: add_processor, add_classifier and
\* add_parser never add a component the collection already holds.
C14_SingleAddsKeepDistinct ==
    [][/\ (last'.op = "add_processor" /\ processors' # processors)
            => processors'[Len(processors')] \notin Range(processors)
       /\ (last'.op = "add_classifier" /\ classifiers' # classifiers)
            => classifiers'[Len(classifiers')] \notin Range(classifiers)
       /\ (last'.op = "add_parser" /\ parsers' # parsers)
            => parsers'[Len(parsers')] \notin Range(parsers)
      ]_vars

\* C15: after the constructor and after every add_* call that returned, every
\* type supported by a registered classifier is targeted by a registered parser.
C15_ConfigurationInvariant == UncoveredTypes = {}

\* The outcome is the routing error of lines 86-90.
RoutingError ==
    /\ outcome.kind = "return"
    /\ outcome.status = "ERROR"
    /\ outcome.details.str
    /\ outcome.details.prefix = "No parser found for document type: "

\* The winning verdict (here: the strict plurality value) is OK with the tag and
\* no registered parser targets the tag.
Unrouted(v) == v.status = "OK" /\ v.schema /\ ParsersFor(v.value) = {}

\* C16: when the winning verdict is OK with a tag that no registered parser
\* targets, process returns ERROR whose details name the tag and invokes no
\* parser; and process returns the routing error only in that case.
C16_RoutingDefensiveCheck ==
    Classified =>
        /\ \A v \in StrictPlurality :
              Unrouted(v) => /\ outcome.kind = "return"
                             /\ outcome.status = "ERROR"
                             /\ v.value \in Range(outcome.details.tokens)
                             /\ Invoked("parse") = {}
        /\ RoutingError => \E v \in Range(results) : Unrouted(v)

\* The second half of C16 alone: the routing error is returned only when some
\* classifier answered OK with a tag that no registered parser targets.
C16_RoutingErrorOnlyWhenUnrouted ==
    (Classified /\ RoutingError) => \E v \in Range(results) : Unrouted(v)

\* The classifier a call of classify was made on, and what the call came to.
ClassifyCalled == last.op = "classify"

\* does_support(tag) of the classifier under test.
does_support(document_type) == document_type \in supported_document_types(classifiers[1])

\* C17: every output classify returns with status OK carries a document_type tag
\* that the classifier supports.
C17_ClassifierOutputSoundness ==
    (ClassifyCalled /\ last.called.kind = "return" /\ last.called.output.status = "OK")
        => /\ last.called.output.schema
           /\ does_support(last.called.output.value)

\* Something inside the call fails: the image cannot be encoded, or a
\* collaborator raises, or the response lacks a field or does not validate.
InternalFailure ==
    encode_image_to_base64(last.image) # "" \/ last.service.fails # ""

\* C18: classify never raises, and when something inside it fails it returns an
\* output whose status is INVALID_IMAGE, UNKNOWN_ERROR or EXTRACTION_FAILED and
\* whose details is a str.
C18_ClassifierTotality ==
    ClassifyCalled
        => /\ last.called.kind = "return"
           /\ InternalFailure
                => /\ last.called.output.status
                        \in {"INVALID_IMAGE", "UNKNOWN_ERROR", "EXTRACTION_FAILED"}
                   /\ ~last.called.output.schema

\* classify was handed an image object, the response of the model service had no
\* usage field, and the call returned the default response.
C18_Witness ==
    /\ ClassifyCalled
    /\ last.image.type = "Image"
    /\ encode_image_to_base64(last.image) = ""
    /\ last.service.fails = "usage"
    /\ last.called = ClassifyReturns(default_response, <<"input">>)

\* The stage a collaborator call belongs to: VALIDATING 1, LOADING 2,
\* PROCESSING 3, CLASSIFYING 4, (ROUTING 5 calls no collaborator,) EXTRACTING 6.
StageOf(call) ==
    CASE call[1] = "validate" -> 1
      [] call[1] = "read_image" -> 2
      [] call[1] = "process" -> 3
      [] call[1] = "classify" -> 4
      [] OTHER -> 6

\* The stages are entered in order and none is entered again: the calls of a
\* stage are consecutive, no component is called twice, and a stage with calls
\* is preceded by the calls of every earlier stage.
StagesInOrder ==
    /\ \A k \in 1..(Len(calls) - 1) : StageOf(calls[k]) <= StageOf(calls[k + 1])
    /\ \A k, m \in DOMAIN calls : calls[k] = calls[m] => k = m
    /\ calls # <<>> => calls[1] = <<"validate", 0>>
    /\ Len(calls) >= 2 => calls[2] = <<"read_image", 0>>
    /\ Invoked("process") \in {{}, DOMAIN processors}
    /\ Invoked("classify") \in {{}, DOMAIN classifiers}
    /\ Invoked("classify") # {} => Invoked("process") = DOMAIN processors
    /\ Invoked("parse") # {} => Invoked("classify") = DOMAIN classifiers

\* C19, the part a single call decides: on a present image the stages are
\* entered in order, none twice; the call ends in SUCCESS (FINISHED_SUCCESS) or
\* in FAILED (ERROR); and it ends in SUCCESS only from EXTRACTING, the routed
\* parser having been the last collaborator called, after an OK verdict.
C19_StageStateMachine ==
    (Processed /\ Truthy(last.document_image))
        => /\ StagesInOrder
           /\ outcome.kind = "return"
           /\ outcome.status \in {"FINISHED_SUCCESS", "ERROR"}
           /\ outcome.status = "FINISHED_SUCCESS"
                => /\ calls # <<>>
                   /\ StageOf(calls[Len(calls)]) = 6
                   /\ last.result.document_type.status = "OK"

\* The order of the stages alone, whether the call returns or raises.
C19_StagesEnteredInOrder ==
    (Processed /\ Truthy(last.document_image)) => StagesInOrder

\* No call of process ends in SUCCESS.
C19_SuccessNeverReached ==
    Processed => (outcome.kind = "return" => outcome.status # "FINISHED_SUCCESS")

\* The call got past the processors: present argument, valid configuration, an
\* image that loads, no processor whose exception escapes.
ReachedClassification ==
    /\ Processed
    /\ Loadable(last.document_image)
    /\ UncoveredTypes = {}
    /\ "raising" \notin Range(processors)

\* C20: in a call that reaches classification every registered classifier is
\* invoked exactly once, in the order of registration, after the last processor
\* and on the image it returned, whatever the classifiers before it answered;
\* the vote (and any parser call) comes after all of them.
C20_EnsembleCompleteness ==
    ReachedClassification
        => LET n == Len(processors)
               m == Len(classifiers)
           IN  /\ Len(calls) >= 2 + n + m
               /\ \A i \in 1..n : calls[2 + i] = <<"process", i>>
               /\ \A i \in 1..m : calls[2 + n + i] = <<"classify", i>>
               /\ \A k \in (2 + n + m + 1)..Len(calls) : calls[k][1] = "parse"
               /\ last.result.image = Chain(processors, last.document_image).image
               /\ m > 0 => Len(results) = m
               /\ \A i \in DOMAIN results : results[i] \in classifier_classify(last.result.image)

\* Three classifiers were asked about the image the converter returned although
\* the first of them answered with an error and the second with OK.
C20_Witness ==
    /\ ReachedClassification
    /\ processors = <<"converter">>
    /\ last.result.image = ImageValue("receipt.jpg", <<"RGB">>)
    /\ Len(classifiers) = 3
    /\ results[1].status = "NO_TEXT"
    /\ results[2].status = "OK"
    /\ Invoked("classify") = {1, 2, 3}

\* C22: every value process returns has status FINISHED_SUCCESS or ERROR; it is
\* FINISHED_SUCCESS exactly when its details is a parser output whose status is
\* OK, and ERROR exactly when its details is a str.
C22_OutcomeShape ==
    (Processed /\ outcome.kind = "return")
        => /\ outcome.status \in {"FINISHED_SUCCESS", "ERROR"}
           /\ outcome.status = "FINISHED_SUCCESS"
                <=> (~outcome.details.str /\ outcome.details.output.status = "OK")
           /\ outcome.status = "ERROR" <=> outcome.details.str

\* process returned from the routing stage: the classifiers were asked, the
\* verdict passed the test of line 75 and no parser was found for it.
C22_Witness ==
    /\ Processed
    /\ outcome.kind = "return"
    /\ Invoked("classify") # {}
    /\ outcome.details.prefix = "No parser found for document type: "

\* ---------------------------------------------------------------------- C21
\* The three collections as one instance sees them.
Collections(self) == [kind \in Kinds |-> Owned(self, kind)]

\* C21: exclusive ownership of collections: an add_* call on one pipeline
\* instance leaves the processors, classifiers and parsers of every other
\* constructed instance unchanged, whichever way the two were constructed
\* (default arguments, or the same lists of a caller).
C21_ExclusiveOwnership ==
    [][\A self \in Constructed :
            Pipeline_add(self)
                => \A other \in Constructed \ {self} : Collections(other)' = Collections(other)]_vars

\* The same frame for two instances that were bound to different list objects.
C21_SeparateListsIsolated ==
    [][\A self \in Constructed :
            Pipeline_add(self)
                => \A other \in Constructed \ {self} :
                        pipelines[other] # pipelines[self]
                            => Collections(other)' = Collections(other)]_vars

\* Two instances constructed with no argument hold the same list objects.
C21_DefaultsShared ==
    /\ Constructed = Instances
    /\ \A self \in Instances : pipelines[self] \in {"default", "config"}
    /\ pipelines["a"] = pipelines["b"]
    /\ Collections("a") # [kind \in Kinds |-> InitialLists[kind][pipelines["a"]]]

====
